---- MODULE Spec2Model ----
(***************************************************************************)
(* Model of the ai-contract-assistant backend and browser extension.       *)
(*                                                                         *)
(* Each subsystem has its own variables, its own initial predicate and its *)
(* own next-state relation; a specification runs one subsystem and leaves  *)
(* the variables of the others at their idle values.                       *)
(*                                                                         *)
(*   SpecRisk     extractRiskScore             (backend/index.ts)          *)
(*   SpecScore    POST /api/analyze-contract   (backend/index.ts)          *)
(*   SpecTimeout  POST /api/analyze-contract   (unnamed/part_001)          *)
(*   SpecFetch    POST /api/fetch-contract     (backend/index.ts)          *)
(*   SpecChunk    chunkText                    (backend/index.ts)          *)
(*   SpecExt      popup and background script  (extension/)                *)
(*   SpecDates    extractDates                 (backend/index.ts)          *)
(*   SpecChat     POST /api/chat               (backend/index.ts)          *)
(*   SpecItems    aggregated bullet items      (backend/index.ts)          *)
(***************************************************************************)
EXTENDS Integers, Sequences, FiniteSets, TLC

VARIABLES
    \* extractRiskScore applied to one text
    rk_text, rk_out,
    \* POST /api/analyze-contract of backend/index.ts
    an_pc, an_n, an_res, an_scores, an_median, an_final, an_status,
    an_content, an_chunks, an_done, an_calls, an_failures, an_body,
    \* POST /api/analyze-contract with timeout protection (unnamed/part_001)
    tm_pc, tm_key, tm_total, tm_timer, tm_call, tm_res, tm_synth, tm_resp,
    \* POST /api/fetch-contract of backend/index.ts
    ft_pc, ft_url, ft_token, ft_calls, ft_resp,
    \* chunkText applied to one text
    ck_text, ck_max, ck_out,
    \* browser extension: popup.js and background.js
    ex_config, ex_active, ex_pc, pendingUrl, ex_tabs, ex_target, ex_firstLoad,
    \* extractDates applied to one text
    dt_matches, dt_out,
    \* ContractAssistant and POST /api/chat
    ch_pc, ch_key, ch_analysis, ch_input, ch_req, ch_prompt, ch_resp, ch_reply,
    ch_messages, ch_loading,
    \* bullet items of the aggregated analysis
    it_sections, it_out

rkVars == <<rk_text, rk_out>>
anVars ==
    <<an_pc, an_n, an_res, an_scores, an_median, an_final, an_status,
      an_content, an_chunks, an_done, an_calls, an_failures, an_body>>
tmVars == <<tm_pc, tm_key, tm_total, tm_timer, tm_call, tm_res, tm_synth, tm_resp>>
ftVars == <<ft_pc, ft_url, ft_token, ft_calls, ft_resp>>
ckVars == <<ck_text, ck_max, ck_out>>
exVars == <<ex_config, ex_active, ex_pc, pendingUrl, ex_tabs, ex_target, ex_firstLoad>>
dtVars == <<dt_matches, dt_out>>
chVars ==
    <<ch_pc, ch_key, ch_analysis, ch_input, ch_req, ch_prompt, ch_resp, ch_reply,
      ch_messages, ch_loading>>
itVars == <<it_sections, it_out>>
vars == <<rkVars, anVars, tmVars, ftVars, ckVars, exVars, dtVars, chVars, itVars>>

\* the variables of the other subsystems
otherThanRk == <<anVars, tmVars, ftVars, ckVars, exVars, dtVars, chVars, itVars>>
otherThanAn == <<rkVars, tmVars, ftVars, ckVars, exVars, dtVars, chVars, itVars>>
otherThanTm == <<rkVars, anVars, ftVars, ckVars, exVars, dtVars, chVars, itVars>>
otherThanFt == <<rkVars, anVars, tmVars, ckVars, exVars, dtVars, chVars, itVars>>
otherThanCk == <<rkVars, anVars, tmVars, ftVars, exVars, dtVars, chVars, itVars>>
otherThanEx == <<rkVars, anVars, tmVars, ftVars, ckVars, dtVars, chVars, itVars>>
otherThanDt == <<rkVars, anVars, tmVars, ftVars, ckVars, exVars, chVars, itVars>>
otherThanCh == <<rkVars, anVars, tmVars, ftVars, ckVars, exVars, dtVars, itVars>>
otherThanIt == <<rkVars, anVars, tmVars, ftVars, ckVars, exVars, dtVars, chVars>>

(***************************************************************************)
(* Bounds of the model.                                                    *)
(***************************************************************************)
\* largest NUM_ANALYSES explored (the code reads it from the environment)
MaxRuns == 3
\* largest number of chunks of the contract content in /api/analyze-contract
MaxChunks == 2
\* largest number of messages sent in the assistant
MaxSends == 2
\* largest number of contractAnalysisComplete events the assistant receives
MaxUpdates == 1
\* largest number of high-risk indicator phrases in one text
MaxIndicators == 2
\* largest number of chunks of a contract
MaxTotalChunks == 6
\* longest text handed to chunkText
MaxTextLen == 5
\* largest number of browser tabs open when the popup is used
MaxTabs == 2
\* largest number of date matches in a text
MaxMatches == 3
\* largest number of runs whose bullet items are aggregated
MaxItemRuns == 2
\* largest number of lines of a section of bullet items
MaxLines == 2

(***************************************************************************)
(* Text of a model answer, as the regular expressions of the code see it.  *)
(* A capture group (\d+) is a sequence of decimal digits; NoMatch stands   *)
(* for a regular expression that did not match.                            *)
(***************************************************************************)
NoMatch == <<>>

RECURSIVE parseInt(_)
\* parseInt over a digit string captured by (\d+)
parseInt(ds) ==
    IF ds = <<>> THEN 0
    ELSE parseInt(SubSeq(ds, 1, Len(ds) - 1)) * 10 + ds[Len(ds)]

Categories == {"legal", "financial", "operational", "reputational"}

\* Math.min(20, Math.max(0, n)) without the upper limit
ClampCategoryNoMin(n) == IF n < 0 THEN 0 ELSE n

\* Math.min(20, Math.max(0, n))
ClampCategory(n) == IF n < 0 THEN 0 ELSE IF n > 20 THEN 20 ELSE n

\* categories.x = xMatch ? clamp(parseInt(xMatch[1])) : 5
CategoryScore(m) == IF m = NoMatch THEN 5 ELSE ClampCategory(parseInt(m))

highScoreThreshold == 60

\* extractRiskScore with the cap lifted by a single indicator phrase
extractRiskScoreOneIndicator(text) ==
    LET categories == [c \in Categories |-> CategoryScore(text.cat[c])]
        totalScore == categories["legal"] + categories["financial"]
                      + categories["operational"] + categories["reputational"]
        adjustedScore == IF totalScore > 60 /\ text.indicators < 1
                         THEN (IF totalScore < 60 THEN totalScore ELSE 60)
                         ELSE totalScore
    IN  [score |-> adjustedScore,
         totalScore |-> totalScore,
         breakdown |-> [categories |-> categories,
                        highRiskIndicators |-> text.indicators]]

\* extractRiskScore(text): text.cat[c] is the capture of category c's
\* pattern, text.indicators the number of high-risk indicator phrases
extractRiskScore(text) ==
    LET categories == [c \in Categories |-> CategoryScore(text.cat[c])]
        totalScore == categories["legal"] + categories["financial"]
                      + categories["operational"] + categories["reputational"]
        adjustedScore == IF totalScore > 60 /\ text.indicators < 2
                         THEN (IF totalScore < 60 THEN totalScore ELSE 60)
                         ELSE totalScore
    IN  [score |-> adjustedScore,
         totalScore |-> totalScore,
         breakdown |-> [categories |-> categories,
                        highRiskIndicators |-> text.indicators]]

(***************************************************************************)
(* SpecRisk: extractRiskScore applied to one text.                         *)
(***************************************************************************)
\* captures a category pattern can produce
CategoryCaptures == {NoMatch, <<0>>, <<7>>, <<2, 0>>, <<2, 1>>, <<9, 9>>}

RiskTexts ==
    [cat : [Categories -> CategoryCaptures], indicators : 0..MaxIndicators]

RkIdle == rk_text = [cat |-> [c \in Categories |-> NoMatch], indicators |-> 0]
          /\ rk_out = <<>>

InitRiskVars == rk_text \in RiskTexts /\ rk_out = <<>>

\* one call of extractRiskScore
ExtractRisk ==
    /\ rk_out = <<>>
    /\ rk_out' = <<extractRiskScore(rk_text)>>
    /\ UNCHANGED <<rk_text, otherThanRk>>

(***************************************************************************)
(* SpecScore: POST /api/analyze-contract of backend/index.ts.              *)
(* an_res[i] is the outcome of analysis run i: Pending, Failed (a model    *)
(* call of the run rejected) or Completed(text), text the risk section of  *)
(* the run's synthesis as the patterns of the aggregation see it.          *)
(***************************************************************************)
Pending == [st |-> "pending"]
Failed == [st |-> "failed"]
Completed(text) == [st |-> "ok", text |-> text]

\* captures of /Risk Score:\s*(\d+)/i
StatedCaptures == {NoMatch, <<0>>, <<4, 5>>, <<7, 0>>, <<2, 5, 0>>}

\* category captures of a risk explanation: none matched, or all four at 20
NoCategories == [c \in Categories |-> NoMatch]
AllCategoriesHigh == [c \in Categories |-> <<2, 0>>]

RunTexts ==
    [stated : StatedCaptures, cat : {NoCategories}, indicators : {0}]
    \cup [stated : StatedCaptures, cat : {AllCategoriesHigh}, indicators : {2}]

AnIdle ==
    /\ an_pc = "off" /\ an_n = 0 /\ an_res = <<>> /\ an_scores = <<>>
    /\ an_median = 0 /\ an_final = 0 /\ an_status = 0
    /\ an_content = "missing" /\ an_chunks = 0 /\ an_done = <<>>
    /\ an_calls = 0 /\ an_failures = 0 /\ an_body = "none"


InitScoreVars ==
    /\ an_pc = "start" /\ an_n = 0 /\ an_res = <<>> /\ an_scores = <<>>
    /\ an_median = 0 /\ an_final = 0 /\ an_status = 0
    \* req.body.contractContent: absent, only white space, or a text
    /\ an_content \in {"missing", "blank", "text"}
    /\ an_chunks = 0 /\ an_done = <<>>
    /\ an_calls = 0 /\ an_failures = 0 /\ an_body = "none"

\* score: score || riskAnalysis.score
RunScore(text) ==
    LET score == IF text.stated # NoMatch THEN parseInt(text.stated) ELSE 0
    IN  IF score # 0 THEN score ELSE extractRiskScore(text).score

RECURSIVE InsertSorted(_, _)
\* e placed after the last element of the sorted s that is not larger
InsertSorted(s, e) ==
    IF s = <<>> THEN <<e>>
    ELSE IF s[Len(s)].score <= e.score THEN Append(s, e)
    ELSE Append(InsertSorted(SubSeq(s, 1, Len(s) - 1), e), s[Len(s)])

\* the scores left in the order of the runs
SortScoresNone(s) == s

RECURSIVE SortScores(_)
\* .sort((a, b) => a.score - b.score), a stable ascending sort
SortScores(s) ==
    IF s = <<>> THEN <<>>
    ELSE InsertSorted(SortScores(SubSeq(s, 1, Len(s) - 1)), s[Len(s)])

\* analyses.map(analysis => ({score, breakdown})).sort(...); run names the
\* analysis whose breakdown the element carries
Scores(res) ==
    SortScores([i \in 1..Len(res) |->
                  [score |-> RunScore(res[i].text), run |-> i]])

\* the median with the mean of the two middle scores rounded down
MedianScoreFloor(scores) ==
    LET medianIndex == Len(scores) \div 2
    IN  IF Len(scores) % 2 = 0
        THEN (scores[medianIndex].score + scores[medianIndex + 1].score) \div 2
        ELSE scores[medianIndex + 1].score

\* finalRiskAnalysis.score before the consensus adjustment; medianIndex is
\* 0-based in the code, the sequence here is 1-based; Math.round rounds a
\* half up
MedianScore(scores) ==
    LET medianIndex == Len(scores) \div 2
    IN  IF Len(scores) % 2 = 0
        THEN (scores[medianIndex].score + scores[medianIndex + 1].score + 1) \div 2
        ELSE scores[medianIndex + 1].score

\* the highest score of the runs, with no consensus adjustment
HighestScore(scores) == scores[Len(scores)].score

\* finalRiskAnalysis.score after the consensus adjustment
FinalScore(scores) ==
    LET median == MedianScore(scores)
        highScores == {i \in 1..Len(scores) : scores[i].score > highScoreThreshold}
    IN  IF median > highScoreThreshold
           /\ 2 * Cardinality(highScores) < Len(scores)
        THEN (IF median < highScoreThreshold THEN median ELSE highScoreThreshold)
        ELSE median

\* the handler up to the first await: blank content throws, otherwise the
\* content is split into chunks and NUM_ANALYSES runs are started, each
\* issuing one model call per chunk
AnalyzeStart ==
    /\ an_pc = "start"
    /\ IF an_content \in {"missing", "blank"}
       THEN /\ an_pc' = "done" /\ an_status' = 500 /\ an_body' = "Failed to analyze contract"
            /\ UNCHANGED <<an_n, an_res, an_chunks, an_done, an_calls>>
       ELSE \E n \in 0..MaxRuns, chunks \in 1..MaxChunks :
              /\ an_pc' = "running" /\ an_n' = n /\ an_chunks' = chunks
              /\ an_res' = [i \in 1..n |-> Pending]
              /\ an_done' = [i \in 1..n |-> 0]
              /\ an_calls' = n * chunks
              /\ UNCHANGED <<an_status, an_body>>
    /\ UNCHANGED <<an_scores, an_median, an_final, an_content, an_failures, otherThanAn>>

\* a chunk call of run i rejects and the rejection is swallowed: the run
\* goes on as if the call had returned
ChunkCallFailsSwallowed ==
    /\ an_pc = "running"
    /\ \E i \in 1..an_n :
         /\ an_res[i].st = "pending" /\ an_done[i] < an_chunks
         /\ an_done' = [an_done EXCEPT ![i] = @ + 1]
         /\ an_calls' = IF an_done[i] + 1 = an_chunks THEN an_calls + 1 ELSE an_calls
    /\ an_failures' = an_failures + 1
    /\ UNCHANGED <<an_pc, an_n, an_res, an_scores, an_median, an_final, an_status,
                   an_content, an_chunks, an_body, otherThanAn>>

\* a chunk call of run i rejects: the inner and the outer Promise.all
\* reject, the catch answers 500
ChunkCallFails ==
    /\ an_pc = "running"
    /\ \E i \in 1..an_n :
         /\ an_res[i].st = "pending" /\ an_done[i] < an_chunks
         /\ an_res' = [an_res EXCEPT ![i] = Failed]
    /\ an_failures' = an_failures + 1
    /\ an_pc' = "done" /\ an_status' = 500 /\ an_body' = "Failed to analyze contract"
    /\ UNCHANGED <<an_n, an_scores, an_median, an_final, an_content, an_chunks,
                   an_done, an_calls, otherThanAn>>

\* a chunk call of run i returns; after the last one of the run the
\* synthesis call of the run is issued
ChunkCallReturns ==
    /\ an_pc = "running"
    /\ \E i \in 1..an_n :
         /\ an_res[i].st = "pending" /\ an_done[i] < an_chunks
         /\ an_done' = [an_done EXCEPT ![i] = @ + 1]
         /\ an_calls' = IF an_done[i] + 1 = an_chunks THEN an_calls + 1 ELSE an_calls
    /\ UNCHANGED <<an_pc, an_n, an_res, an_scores, an_median, an_final, an_status,
                   an_content, an_chunks, an_failures, an_body, otherThanAn>>

\* the synthesis call of run i returns and the run resolves to its parsed
\* synthesis
RunCompletes ==
    /\ an_pc = "running"
    /\ \E i \in 1..an_n, text \in RunTexts :
         /\ an_res[i].st = "pending" /\ an_done[i] = an_chunks
         /\ an_res' = [an_res EXCEPT ![i] = Completed(text)]
    /\ UNCHANGED <<an_pc, an_n, an_scores, an_median, an_final, an_status,
                   an_content, an_chunks, an_done, an_calls, an_failures, an_body,
                   otherThanAn>>

\* the synthesis call of run i rejects: Promise.all rejects, the catch
\* answers 500
RunFails ==
    /\ an_pc = "running"
    /\ \E i \in 1..an_n :
         /\ an_res[i].st = "pending" /\ an_done[i] = an_chunks
         /\ an_res' = [an_res EXCEPT ![i] = Failed]
    /\ an_failures' = an_failures + 1
    /\ an_pc' = "done" /\ an_status' = 500 /\ an_body' = "Failed to analyze contract"
    /\ UNCHANGED <<an_n, an_scores, an_median, an_final, an_content, an_chunks,
                   an_done, an_calls, otherThanAn>>

\* the handler after Promise.all resolved: scores, median, consensus
\* adjustment, response; with no run scores[medianIndex] is undefined and
\* reading its score throws
Aggregate ==
    /\ an_pc = "running"
    /\ \A i \in 1..an_n : an_res[i].st = "ok"
    /\ an_pc' = "done"
    /\ IF an_n = 0
       THEN /\ an_status' = 500 /\ an_body' = "Failed to analyze contract"
            /\ UNCHANGED <<an_scores, an_median, an_final>>
       ELSE /\ an_scores' = Scores(an_res)
            /\ an_median' = MedianScore(Scores(an_res))
            /\ an_final' = FinalScore(Scores(an_res))
            /\ an_status' = 200 /\ an_body' = "analysis"
    /\ UNCHANGED <<an_n, an_res, an_content, an_chunks, an_done, an_calls,
                   an_failures, otherThanAn>>

(***************************************************************************)
(* SpecTimeout: POST /api/analyze-contract of unnamed/part_001.            *)
(* tm_call[i] is the state of the model call of chunk i, tm_res[i] what    *)
(* the guarded chunk analysis resolved to, tm_synth the state of the       *)
(* synthesis call, tm_resp the responses sent.                             *)
(***************************************************************************)
\* chunks.length above which only three chunks are processed
ProcessLimit == 5
\* number of chunks processed of a contract beyond the limit
SampledChunks == 3

\* processableChunks.length
Processable(total) == IF total > ProcessLimit THEN SampledChunks ELSE total

\* captures of /risk score:?\s*(\d+)/i in the synthesis
SynthesisCaptures == {NoMatch, <<0>>, <<4, 5>>, <<2, 5, 0>>}

\* parseInt(match?.[1] || '50')
SynthesisScore(m) == IF m = NoMatch THEN 50 ELSE parseInt(m)

\* Math.min(100, Math.max(0, riskScore))
ClampScore(n) == IF n < 0 THEN 0 ELSE IF n > 100 THEN 100 ELSE n

\* the response of a catch block that answers with status 500
FallbackStatus500(message) ==
    [status |-> 500, kind |-> "fallback", riskScore |-> 50,
     isPartialAnalysis |-> TRUE, error |-> message]

\* the response of the catch block
Fallback(message) ==
    [status |-> 200, kind |-> "fallback", riskScore |-> 50,
     isPartialAnalysis |-> TRUE, error |-> message]

\* the response after a parsed synthesis
Synthesis(m, total) ==
    [status |-> 200, kind |-> "synthesis",
     riskScore |-> ClampScore(SynthesisScore(m)),
     isPartialAnalysis |-> total > Processable(total), error |-> "none"]

TmIdle ==
    /\ tm_pc = "off" /\ tm_key = TRUE /\ tm_total = 0 /\ tm_timer = "unset"
    /\ tm_call = <<>> /\ tm_res = <<>> /\ tm_synth = "none" /\ tm_resp = <<>>

InitTimeoutVars ==
    /\ tm_pc = "start" /\ tm_key \in BOOLEAN /\ tm_total = 0
    /\ tm_timer = "unset" /\ tm_call = <<>> /\ tm_res = <<>>
    /\ tm_synth = "none" /\ tm_resp = <<>>

\* the handler up to the first await: blank content throws into the catch
\* block; otherwise the timer is set and every chunk analysis is started
\* (without an API key analyzeChunk rejects and the placeholder is kept)
TimeoutStart ==
    /\ tm_pc = "start"
    /\ \E blank \in BOOLEAN, total \in 0..MaxTotalChunks :
         IF blank
         THEN /\ tm_pc' = "done"
              /\ tm_resp' = Append(tm_resp, Fallback("Contract content is required"))
              /\ UNCHANGED <<tm_total, tm_timer, tm_call, tm_res>>
         ELSE /\ tm_pc' = "chunks"
              /\ tm_total' = total
              /\ tm_timer' = "armed"
              /\ tm_call' = [i \in 1..Processable(total) |->
                               IF tm_key THEN "pending" ELSE "failed"]
              /\ tm_res' = [i \in 1..Processable(total) |->
                               IF tm_key THEN "none" ELSE "placeholder"]
              /\ UNCHANGED tm_resp
    /\ UNCHANGED <<tm_key, tm_synth, otherThanTm>>

\* the model call of chunk i resolves before the timer
ChunkCompletes ==
    /\ tm_pc = "chunks"
    /\ \E i \in 1..Len(tm_call) :
         /\ tm_call[i] = "pending" /\ tm_res[i] = "none"
         /\ tm_call' = [tm_call EXCEPT ![i] = "ok"]
         /\ tm_res' = [tm_res EXCEPT ![i] = "text"]
    /\ UNCHANGED <<tm_pc, tm_key, tm_total, tm_timer, tm_synth, tm_resp, otherThanTm>>

\* the model call of chunk i rejects before the timer: the catch of the
\* race keeps the placeholder
ChunkFails ==
    /\ tm_pc = "chunks"
    /\ \E i \in 1..Len(tm_call) :
         /\ tm_call[i] = "pending" /\ tm_res[i] = "none"
         /\ tm_call' = [tm_call EXCEPT ![i] = "failed"]
         /\ tm_res' = [tm_res EXCEPT ![i] = "placeholder"]
    /\ UNCHANGED <<tm_pc, tm_key, tm_total, tm_timer, tm_synth, tm_resp, otherThanTm>>

\* the timer rejects the chunk races only
TimerFiresChunksOnly ==
    /\ tm_timer = "armed"
    /\ tm_timer' = "fired"
    /\ tm_res' = [i \in 1..Len(tm_res) |->
                    IF tm_res[i] = "none" THEN "placeholder" ELSE tm_res[i]]
    /\ UNCHANGED <<tm_pc, tm_resp>>
    /\ UNCHANGED <<tm_key, tm_total, tm_call, tm_synth, otherThanTm>>

\* setTimeout callback: timeoutPromise rejects; every chunk race still
\* open rejects and its catch keeps the placeholder; an open synthesis race
\* rejects into the catch block of the handler
TimerFires ==
    /\ tm_timer = "armed"
    /\ tm_timer' = "fired"
    /\ tm_res' = [i \in 1..Len(tm_res) |->
                    IF tm_res[i] = "none" THEN "placeholder" ELSE tm_res[i]]
    /\ IF tm_pc = "synth"
       THEN /\ tm_pc' = "done"
            /\ tm_resp' = Append(tm_resp, Fallback("Analysis timeout"))
       ELSE UNCHANGED <<tm_pc, tm_resp>>
    /\ UNCHANGED <<tm_key, tm_total, tm_call, tm_synth, otherThanTm>>

\* the handler after Promise.all of the chunk analyses resolved: the model
\* is initialised and the synthesis call raced against timeoutPromise, which
\* rejects the race at once when the timer has fired already
SynthesisStart ==
    /\ tm_pc = "chunks"
    /\ \A i \in 1..Len(tm_res) : tm_res[i] # "none"
    /\ IF ~tm_key
       THEN /\ tm_pc' = "done"
            /\ tm_resp' = Append(tm_resp, Fallback("Gemini API key not configured"))
            /\ UNCHANGED tm_synth
       ELSE /\ tm_synth' = "pending"
            /\ IF tm_timer = "fired"
               THEN /\ tm_pc' = "done"
                    /\ tm_resp' = Append(tm_resp, Fallback("Analysis timeout"))
               ELSE /\ tm_pc' = "synth"
                    /\ UNCHANGED tm_resp
    /\ UNCHANGED <<tm_key, tm_total, tm_timer, tm_call, tm_res, otherThanTm>>

\* the synthesis call resolves before the timer: the answer is parsed and
\* sent, or reading its text throws into the catch block
SynthesisCompletes ==
    /\ tm_pc = "synth" /\ tm_synth = "pending"
    /\ tm_synth' = "ok"
    /\ tm_pc' = "done"
    /\ \/ \E m \in SynthesisCaptures :
            tm_resp' = Append(tm_resp, Synthesis(m, tm_total))
       \/ tm_resp' = Append(tm_resp, Fallback("response text unavailable"))
    /\ UNCHANGED <<tm_key, tm_total, tm_timer, tm_call, tm_res, otherThanTm>>

\* the synthesis call rejects before the timer
SynthesisFails ==
    /\ tm_pc = "synth" /\ tm_synth = "pending"
    /\ tm_synth' = "failed"
    /\ tm_pc' = "done"
    /\ tm_resp' = Append(tm_resp, Fallback("model error"))
    /\ UNCHANGED <<tm_key, tm_total, tm_timer, tm_call, tm_res, otherThanTm>>

(***************************************************************************)
(* SpecFetch: POST /api/fetch-contract of backend/index.ts.                *)
(* ft_calls lists the external steps issued, each with the bearer token it *)
(* carried and its outcome; ft_resp lists the status codes answered.       *)
(***************************************************************************)
\* the external steps in the order of the handler's code
StepOrder == <<"userinfo", "doclist", "combined", "parse">>

\* what the request can carry: no docusignUrl, one without an identifier,
\* one with an envelopes/<id> or a documents/details/<id> segment
FetchUrls == {"missing", "noid", "envelope", "details"}
\* req.headers.authorization?.split(' ')[1]
FetchTokens == {"none", "t1", "t2"}

\* status codes DocuSign rejects a call with
RejectStatuses == {401, 403, 404, 500}

PendingCall == [kind |-> "pending", status |-> 0]
\* ok: usable answer; empty: answered, but without account, document or
\* text; http: rejected with a status; error: no answer at all (or the
\* parser threw)
HttpOutcomes ==
    {[kind |-> "ok", status |-> 200], [kind |-> "empty", status |-> 200],
     [kind |-> "error", status |-> 0]}
    \cup {[kind |-> "http", status |-> st] : st \in RejectStatuses}
ParseOutcomes ==
    {[kind |-> "ok", status |-> 0], [kind |-> "empty", status |-> 0],
     [kind |-> "error", status |-> 0]}

\* the Authorization header of a step; the PDF parser is no HTTP call
StepToken(step, token) == IF step = "parse" THEN "n/a" ELSE token

\* the handler goes on after an answered call without checking its content
ContinuesUnchecked(step, outcome) == outcome.kind \in {"ok", "empty"}

\* the handler goes on to the next step: the call was answered and the
\* account, the document list or the text is there
Continues(step, outcome) == outcome.kind = "ok"

\* the status of the error response: the user-info call has no .catch of
\* its own, so the axios error reaches the handler's catch with its
\* response; the .catch of the other calls throws a new Error without one
ErrorStatus(step, outcome) ==
    IF step = "userinfo" /\ outcome.kind = "http" THEN outcome.status ELSE 500

FtIdle ==
    /\ ft_pc = "off" /\ ft_url = "missing" /\ ft_token = "none"
    /\ ft_calls = <<>> /\ ft_resp = <<>>

InitFetchVars ==
    /\ ft_pc = "start" /\ ft_url \in FetchUrls /\ ft_token \in FetchTokens
    /\ ft_calls = <<>> /\ ft_resp = <<>>

Issue(step) ==
    Append(ft_calls, [step |-> step, token |-> StepToken(step, ft_token),
                      outcome |-> PendingCall])

\* the handler up to the first await with the token checked before the URL
FetchStartTokenFirst ==
    /\ ft_pc = "start"
    /\ IF ft_token = "none"
       THEN ft_pc' = "done" /\ ft_resp' = <<401>> /\ UNCHANGED ft_calls
       ELSE IF ft_url \in {"missing", "noid"}
       THEN ft_pc' = "done" /\ ft_resp' = <<400>> /\ UNCHANGED ft_calls
       ELSE /\ ft_pc' = "userinfo"
            /\ ft_calls' = Issue("userinfo")
            /\ UNCHANGED ft_resp
    /\ UNCHANGED <<ft_url, ft_token, otherThanFt>>

\* the handler up to the first await: the three request checks, then the
\* user-info call
FetchStart ==
    /\ ft_pc = "start"
    /\ IF ft_url = "missing"
       THEN ft_pc' = "done" /\ ft_resp' = <<400>> /\ UNCHANGED ft_calls
       ELSE IF ft_token = "none"
       THEN ft_pc' = "done" /\ ft_resp' = <<401>> /\ UNCHANGED ft_calls
       ELSE IF ft_url = "noid"
       THEN ft_pc' = "done" /\ ft_resp' = <<400>> /\ UNCHANGED ft_calls
       ELSE /\ ft_pc' = "userinfo"
            /\ ft_calls' = Issue("userinfo")
            /\ UNCHANGED ft_resp
    /\ UNCHANGED <<ft_url, ft_token, otherThanFt>>

\* the continuation after step number k returned: the next step is issued,
\* or the response is sent (the content after the last step, an error
\* otherwise)
StepReturns(k, outcome) ==
    /\ ft_pc = StepOrder[k]
    /\ LET returned == [ft_calls EXCEPT ![k].outcome = outcome]
       IN  IF Continues(StepOrder[k], outcome)
           THEN IF k < Len(StepOrder)
                THEN /\ ft_pc' = StepOrder[k + 1]
                     /\ ft_calls' =
                          Append(returned,
                                 [step |-> StepOrder[k + 1],
                                  token |-> StepToken(StepOrder[k + 1], ft_token),
                                  outcome |-> PendingCall])
                     /\ UNCHANGED ft_resp
                ELSE /\ ft_pc' = "done"
                     /\ ft_calls' = returned
                     /\ ft_resp' = Append(ft_resp, 200)
           ELSE /\ ft_pc' = "done"
                /\ ft_calls' = returned
                /\ ft_resp' = Append(ft_resp, ErrorStatus(StepOrder[k], outcome))
    /\ UNCHANGED <<ft_url, ft_token, otherThanFt>>

\* GET /oauth/userinfo returns
UserInfoReturns == \E outcome \in HttpOutcomes : StepReturns(1, outcome)
\* GET .../envelopes/<id>/documents returns
DocumentListReturns == \E outcome \in HttpOutcomes : StepReturns(2, outcome)
\* GET .../documents/combined returns
CombinedDocumentReturns ==
    \E outcome \in HttpOutcomes \ {[kind |-> "empty", status |-> 200]} :
        StepReturns(3, outcome)
\* parsePDF returns
ParseReturns == \E outcome \in ParseOutcomes : StepReturns(4, outcome)

(***************************************************************************)
(* SpecChunk: chunkText applied to one text. A text is a sequence of       *)
(* characters: a letter, a sentence terminator and a blank.                *)
(***************************************************************************)
Alphabet == {"a", ".", " "}
\* [.!?]
IsTerminator(ch) == ch \in {".", "!", "?"}
\* \s
IsSpace(ch) == ch \in {" "}

Texts == UNION {[1..n -> Alphabet] : n \in 0..MaxTextLen}
\* values of maxChunkSize
ChunkSizes == {2, 3}

RECURSIVE RunEnd(_, _, _)
\* the last index of the run of characters of one class that starts at i
\* (i - 1 when there is none); terminators when term, blanks otherwise
RunEnd(t, i, term) ==
    IF i <= Len(t) /\ (IF term THEN IsTerminator(t[i]) ELSE IsSpace(t[i]))
    THEN RunEnd(t, i + 1, term)
    ELSE i - 1

RECURSIVE SplitFrom(_, _, _)
\* the pieces of t from the piece that starts at start, scanning at i
SplitFrom(t, start, i) ==
    IF i > Len(t) THEN <<SubSeq(t, start, Len(t))>>
    ELSE IF IsTerminator(t[i])
    THEN LET q == RunEnd(t, i, TRUE)
             w == RunEnd(t, q + 1, FALSE)
         IN  IF w > q
             THEN <<SubSeq(t, start, i - 1)>> \o SplitFrom(t, w + 1, w + 1)
             ELSE SplitFrom(t, start, q + 1)
    ELSE SplitFrom(t, start, i + 1)

\* text.split(/[.!?]+\s+/)
SplitSentences(t) == SplitFrom(t, 1, 1)

RECURSIVE TrimStart(_)
TrimStart(t) ==
    IF t # <<>> /\ IsSpace(t[1]) THEN TrimStart(SubSeq(t, 2, Len(t))) ELSE t

RECURSIVE TrimEnd(_)
TrimEnd(t) ==
    IF t # <<>> /\ IsSpace(t[Len(t)]) THEN TrimEnd(SubSeq(t, 1, Len(t) - 1)) ELSE t

\* String.prototype.trim
Trim(t) == TrimEnd(TrimStart(t))

RECURSIVE ChunkLoop(_, _, _, _, _)
\* the for loop of chunkText from sentence k on, and the final push
ChunkLoop(sentences, k, chunks, currentChunk, maxChunkSize) ==
    IF k > Len(sentences)
    THEN IF currentChunk # <<>> THEN Append(chunks, Trim(currentChunk)) ELSE chunks
    ELSE LET sentence == sentences[k]
         IN  IF Len(currentChunk \o sentence) > maxChunkSize
             THEN ChunkLoop(sentences, k + 1,
                            IF currentChunk # <<>>
                            THEN Append(chunks, Trim(currentChunk)) ELSE chunks,
                            sentence, maxChunkSize)
             ELSE ChunkLoop(sentences, k + 1, chunks,
                            currentChunk
                            \o (IF currentChunk # <<>> THEN <<" ">> ELSE <<>>)
                            \o sentence,
                            maxChunkSize)

\* chunkText(text, maxChunkSize)
chunkText(text, maxChunkSize) ==
    ChunkLoop(SplitSentences(text), 1, <<>>, <<>>, maxChunkSize)

CkIdle == ck_text = <<>> /\ ck_max = 0 /\ ck_out = <<>>

InitChunkVars == ck_text \in Texts /\ ck_max \in ChunkSizes /\ ck_out = <<>>

\* one call of chunkText
ChunkText ==
    /\ ck_out = <<>>
    /\ ck_out' = <<chunkText(ck_text, ck_max)>>
    /\ UNCHANGED <<ck_text, ck_max, otherThanCk>>

(***************************************************************************)
(* SpecExt: the popup and the background script of the extension.          *)
(* ex_config tells the two popup scripts of popup.js apart by the frontend *)
(* they open. A tab has the site it shows, its load status, whether its    *)
(* page renders the DocuSign URL input (ContractAnalyzer renders it only   *)
(* with a docusign_token in the tab's sessionStorage) and the value of     *)
(* that input.                                                             *)
(***************************************************************************)
\* the frontend of the popup at popup.js:21-74 and of the one at 76-159
FrontendOf(config) == IF config = "local" THEN "localhost5173" ELSE "vercel"

Sites == {"localhost5173", "vercel", "other"}
TheUrl == "docusignUrl"

TabStates ==
    [site : Sites, status : {"complete"}, hasInput : BOOLEAN, input : {""}]

\* tab.url.startsWith('http://localhost:5173')
UrlMatches(site) == site = "localhost5173"

ExIdle ==
    /\ ex_config = "local" /\ ex_active = "other" /\ ex_pc = "off"
    /\ pendingUrl = "null" /\ ex_tabs = <<>> /\ ex_target = 0
    /\ ex_firstLoad = "none"

InitExtVars ==
    /\ ex_config \in {"local", "hosted"}
    /\ ex_active \in {"docusign", "other"}
    /\ ex_pc = "idle"
    /\ pendingUrl = "null"
    /\ ex_tabs \in UNION {[1..n -> TabStates] : n \in 0..MaxTabs}
    /\ ex_target = 0
    /\ ex_firstLoad = "none"

\* click on the popup button up to the fetch: the URL of the active tab
\* is validated and sent to the backend
PopupClick ==
    /\ ex_pc = "idle"
    /\ ex_pc' = IF ex_active = "docusign" THEN "fetching" ELSE "done"
    /\ UNCHANGED <<ex_config, ex_active, pendingUrl, ex_tabs, ex_target,
                   ex_firstLoad, otherThanEx>>

\* the backend answers: accepted, the popup sends STORE_URL; otherwise it
\* shows the error
BackendAnswers ==
    /\ ex_pc = "fetching"
    /\ \E ok \in BOOLEAN : ex_pc' = IF ok THEN "storing" ELSE "done"
    /\ UNCHANGED <<ex_config, ex_active, pendingUrl, ex_tabs, ex_target,
                   ex_firstLoad, otherThanEx>>

\* chrome.runtime.onMessage listener of the background script
StoreUrl ==
    /\ ex_pc = "storing"
    /\ pendingUrl' = TheUrl
    /\ ex_pc' = "stored"
    /\ UNCHANGED <<ex_config, ex_active, ex_tabs, ex_target, ex_firstLoad,
                   otherThanEx>>

\* the popup after sendMessage resolved: a tab of its frontend is
\* reloaded, or a new one is created (with an empty sessionStorage)
OpenFrontend ==
    /\ ex_pc = "stored"
    /\ LET frontendTabs ==
               {t \in 1..Len(ex_tabs) : ex_tabs[t].site = FrontendOf(ex_config)}
       IN  IF frontendTabs # {}
           THEN \E t \in frontendTabs :
                  /\ ex_tabs' = [ex_tabs EXCEPT ![t].status = "loading",
                                                ![t].input = ""]
                  /\ ex_target' = t
           ELSE /\ ex_tabs' = Append(ex_tabs,
                                     [site |-> FrontendOf(ex_config),
                                      status |-> "loading",
                                      hasInput |-> FALSE, input |-> ""])
                /\ ex_target' = Len(ex_tabs) + 1
    /\ ex_pc' = "done"
    /\ UNCHANGED <<ex_config, ex_active, pendingUrl, ex_firstLoad, otherThanEx>>

\* the user reloads a tab
UserReloads ==
    /\ \E t \in 1..Len(ex_tabs) :
         /\ ex_tabs[t].status = "complete"
         /\ ex_tabs' = [ex_tabs EXCEPT ![t].status = "loading", ![t].input = ""]
    /\ UNCHANGED <<ex_config, ex_active, ex_pc, pendingUrl, ex_target,
                   ex_firstLoad, otherThanEx>>

\* a tab finishes loading: chrome.tabs.onUpdated listener of the
\* background script and the function it injects. ex_firstLoad records
\* what the first completed load of the popup's tab did to its input.
TabLoaded ==
    \E t \in 1..Len(ex_tabs) :
        /\ ex_tabs[t].status = "loading"
        /\ LET inject == UrlMatches(ex_tabs[t].site) /\ pendingUrl # "null"
               written == inject /\ ex_tabs[t].hasInput
           IN  /\ ex_tabs' = [ex_tabs EXCEPT
                                ![t].status = "complete",
                                ![t].input = IF written THEN pendingUrl ELSE @]
               /\ pendingUrl' = IF inject THEN "null" ELSE pendingUrl
               /\ ex_firstLoad' =
                    IF t = ex_target /\ ex_firstLoad = "none"
                    THEN (IF written THEN "written"
                          ELSE IF ex_tabs[t].hasInput THEN "skipped"
                          ELSE "noinput")
                    ELSE ex_firstLoad
        /\ UNCHANGED <<ex_config, ex_active, ex_pc, ex_target, otherThanEx>>

(***************************************************************************)
(* SpecDates: extractDates applied to one text. The text is given by the   *)
(* date matches it holds, in text order; a match has the date string and   *)
(* the cleaned context of its sentence: the context's text, its length and *)
(* the important keywords it contains.                                     *)
(***************************************************************************)
\* importantKeywords
importantKeywords ==
    <<"deadline", "due", "expire", "renewal", "termination", "payment",
      "delivery", "review", "start", "end", "effective", "completion",
      "milestone", "schedule", "duration", "period", "term", "report",
      "submit", "commence", "initiate", "conclude", "finalize">>

\* datePatterns: the type of each pattern and date strings it matches
datePatterns ==
    <<[type |-> "standard", dates |-> {}],
      [type |-> "standard", dates |-> {"2024-01-15"}],
      [type |-> "standard", dates |-> {"January 5, 2025"}],
      [type |-> "relative", dates |-> {"within 30 days"}],
      [type |-> "relative", dates |-> {}],
      [type |-> "relative", dates |-> {"next month"}],
      [type |-> "relative", dates |-> {}]>>

\* the index in datePatterns of the pattern that matches the date string
PatternOf(date) == CHOOSE p \in 1..Len(datePatterns) : date \in datePatterns[p].dates

Contexts ==
    {[text |-> "c1", length |-> 12, keywords |-> {"deadline"}],
     [text |-> "c2", length |-> 12, keywords |-> {"payment", "due"}],
     [text |-> "c3", length |-> 20, keywords |-> {"term", "end"}],
     [text |-> "c4", length |-> 8, keywords |-> {}]}

\* importantKeywords.some(keyword => contextLower.includes(keyword))
IsImportant(context) ==
    \E k \in 1..Len(importantKeywords) : importantKeywords[k] \in context.keywords

\* importantKeywords.find(keyword => contextLower.includes(keyword))
EventType(context) ==
    LET first == CHOOSE k \in 1..Len(importantKeywords) :
                   /\ importantKeywords[k] \in context.keywords
                   /\ \A j \in 1..(k - 1) : importantKeywords[j] \notin context.keywords
    IN  importantKeywords[first]

RECURSIVE MatchesOfPattern(_, _, _)
\* the while loop over pattern.exec(text) for the pattern at index p: the
\* entries pushed for its matches from match k on
MatchesOfPattern(matches, p, k) ==
    IF k > Len(matches) THEN <<>>
    ELSE (IF PatternOf(matches[k].date) = p /\ IsImportant(matches[k].context)
          THEN <<[date |-> matches[k].date,
                  context |-> matches[k].context,
                  type |-> EventType(matches[k].context)]>>
          ELSE <<>>)
         \o MatchesOfPattern(matches, p, k + 1)

RECURSIVE ImportantDates(_, _)
\* datePatterns.forEach from the pattern at index p on
ImportantDates(matches, p) ==
    IF p > Len(datePatterns) THEN <<>>
    ELSE MatchesOfPattern(matches, p, 1) \o ImportantDates(matches, p + 1)

\* one step of the reduce that replaces on an equally long context too
AddUniqueKeepLast(acc, current) ==
    IF \A i \in 1..Len(acc) : acc[i].date # current.date
    THEN Append(acc, current)
    ELSE LET index == CHOOSE i \in 1..Len(acc) : acc[i].date = current.date
         IN  IF current.context.length >= acc[index].context.length
             THEN [acc EXCEPT ![index] = current]
             ELSE acc

\* one step of the reduce: a new date is appended, a known one replaces the
\* entry kept when its context is longer
AddUnique(acc, current) ==
    IF \A i \in 1..Len(acc) : acc[i].date # current.date
    THEN Append(acc, current)
    ELSE LET index == CHOOSE i \in 1..Len(acc) :
                        /\ acc[i].date = current.date
                        /\ \A j \in 1..(i - 1) : acc[j].date # current.date
         IN  IF current.context.length > acc[index].context.length
             THEN [acc EXCEPT ![index] = current]
             ELSE acc

RECURSIVE UniqueDates(_)
\* importantDates.reduce(...)
UniqueDates(dates) ==
    IF dates = <<>> THEN <<>>
    ELSE AddUnique(UniqueDates(SubSeq(dates, 1, Len(dates) - 1)), dates[Len(dates)])

RECURSIVE InsertByType(_, _)
\* e is put behind the last entry the comparator of the sort does not put
\* behind it: the comparator is positive for a non-standard entry followed
\* by a standard one only
InsertByType(s, e) ==
    IF s = <<>> THEN <<e>>
    ELSE IF ~(s[Len(s)].type # "standard" /\ e.type = "standard") THEN Append(s, e)
    ELSE Append(InsertByType(SubSeq(s, 1, Len(s) - 1), e), s[Len(s)])

RECURSIVE SortByType(_)
\* uniqueDates.sort(...), a stable sort
SortByType(s) ==
    IF s = <<>> THEN <<>>
    ELSE InsertByType(SortByType(SubSeq(s, 1, Len(s) - 1)), s[Len(s)])

\* extractDates(text)
extractDates(matches) == SortByType(UniqueDates(ImportantDates(matches, 1)))

DtIdle == dt_matches = <<>> /\ dt_out = <<>>

InitDatesVars ==
    /\ dt_matches \in
         UNION {[1..n -> [date : UNION {datePatterns[p].dates :
                                          p \in 1..Len(datePatterns)},
                          context : Contexts]] :
                                n \in 0..MaxMatches}
    /\ dt_out = <<>>

\* one call of extractDates
ExtractDates ==
    /\ dt_out = <<>>
    /\ dt_out' = <<extractDates(dt_matches)>>
    /\ UNCHANGED <<dt_matches, otherThanDt>>

(***************************************************************************)
(* SpecChat: one question sent by ContractAssistant (src/mockData.ts) to   *)
(* POST /api/chat (backend/index.ts). Strings are sequences of characters. *)
(***************************************************************************)
DigitChars == <<"0", "1", "2", "3", "4", "5", "6", "7", "8", "9">>
\* \d of a regular expression
Digits == {DigitChars[k] : k \in 1..Len(DigitChars)}
\* \s of a regular expression, and the white space trim removes
WhiteSpace == {" ", "\n"}

\* String.prototype.toLowerCase
toLowerCase(str) ==
    LET UpperCase ==
            <<"A", "B", "C", "D", "E", "F", "G", "H", "I", "J", "K", "L", "M",
              "N", "O", "P", "Q", "R", "S", "T", "U", "V", "W", "X", "Y", "Z">>
        LowerCase ==
            <<"a", "b", "c", "d", "e", "f", "g", "h", "i", "j", "k", "l", "m",
              "n", "o", "p", "q", "r", "s", "t", "u", "v", "w", "x", "y", "z">>
    IN  [i \in 1..Len(str) |->
            IF \E k \in 1..Len(UpperCase) : UpperCase[k] = str[i]
            THEN LowerCase[CHOOSE k \in 1..Len(UpperCase) : UpperCase[k] = str[i]]
            ELSE str[i]]

\* the characters of lit stand in str from position i on
MatchesAt(str, i, lit) ==
    /\ i + Len(lit) - 1 <= Len(str)
    /\ \A j \in 1..Len(lit) : str[i + j - 1] = lit[j]

\* String.prototype.includes
includes(str, lit) == \E i \in 1..(Len(str) + 1) : MatchesAt(str, i, lit)

RECURSIVE NumberToString(_)
\* the decimal digits ${n} puts into a template string, n a natural number
NumberToString(n) ==
    IF n < 10 THEN <<DigitChars[n + 1]>>
    ELSE NumberToString(n \div 10) \o <<DigitChars[(n % 10) + 1]>>

\* analysis.riskScore < 30 ? 'Low' : analysis.riskScore < 60 ? 'Moderate' : 'High'
RiskLabel(riskScore) ==
    IF riskScore < 30 THEN <<"L", "o", "w">>
    ELSE IF riskScore < 60
    THEN <<"M", "o", "d", "e", "r", "a", "t", "e">>
    ELSE <<"H", "i", "g", "h">>

\* the context string generateResponse sends (indentation left out):
\* '\nContract Analysis Context:\nSummary: ${analysis.summary}
\*  \nRisk Score: ${analysis.riskScore}/100 (${label} Risk)
\*  \nKey Terms: ...\nPotential Issues: ...\nRecommendations: ...
\*  \n\nUser Question: ${userQuestion}\n'
FormatContext(analysis, userQuestion) ==
    <<"\n", "C", "o", "n", "t", "r", "a", "c", "t", " ", "A", "n", "a",
      "l", "y", "s", "i", "s", " ", "C", "o", "n", "t", "e", "x", "t", ":",
      "\n", "S", "u", "m", "m", "a", "r", "y", ":", " ">>
    \o analysis.summary
    \o <<"\n", "R", "i", "s", "k", " ", "S", "c", "o", "r", "e", ":", " ">>
    \o NumberToString(analysis.riskScore)
    \o <<"/", "1", "0", "0", " ", "(">>
    \o RiskLabel(analysis.riskScore)
    \o <<" ", "R", "i", "s", "k", ")", "\n", "K", "e", "y", " ", "T", "e",
         "r", "m", "s", ":", " ">>
    \o analysis.keyTerms
    \o <<"\n", "P", "o", "t", "e", "n", "t", "i", "a", "l", " ", "I", "s",
         "s", "u", "e", "s", ":", " ">>
    \o analysis.potentialIssues
    \o <<"\n", "R", "e", "c", "o", "m", "m", "e", "n", "d", "a", "t", "i",
         "o", "n", "s", ":", " ">>
    \o analysis.recommendations
    \o <<"\n", "\n", "U", "s", "e", "r", " ", "Q", "u", "e", "s", "t", "i",
         "o", "n", ":", " ">>
    \o userQuestion \o <<"\n">>

\* the first position at or after i that holds no character of the class
Skip(str, i, class) ==
    CHOOSE j \in i..(Len(str) + 1) :
        /\ \A k \in i..(j - 1) : str[k] \in class
        /\ j <= Len(str) => str[j] \notin class

\* 'Risk Score:', the literal head of /Risk Score:\s*(\d+)%/
RiskScoreLabel ==
    <<"R", "i", "s", "k", " ", "S", "c", "o", "r", "e", ":">>

\* /Risk Score:\s*(\d+)%/ matches at position i
RiskScoreMatchesAt(str, i) ==
    /\ MatchesAt(str, i, RiskScoreLabel)
    /\ LET from == Skip(str, i + Len(RiskScoreLabel), WhiteSpace)
           to == Skip(str, from, Digits)
       IN  /\ to > from
           /\ to <= Len(str)
           /\ str[to] = "%"

\* context.match(/Risk Score:\s*(\d+)%/)?.[1] || '0'
ParseRiskScore(context) ==
    IF \E i \in 1..Len(context) : RiskScoreMatchesAt(context, i)
    THEN LET i == CHOOSE i \in 1..Len(context) :
                    /\ RiskScoreMatchesAt(context, i)
                    /\ \A j \in 1..(i - 1) : ~RiskScoreMatchesAt(context, j)
             from == Skip(context, i + Len(RiskScoreLabel), WhiteSpace)
         IN  SubSeq(context, from, Skip(context, from, Digits) - 1)
    ELSE <<"0">>

\* the branches of the if-else chain that builds focusedPrompt, in its
\* order, each with the two keywords it tests
FocusGroups ==
    <<[focus |-> "risk",
       keywords |-> {<<"r", "i", "s", "k">>,
                     <<"s", "c", "o", "r", "e">>}],
      [focus |-> "recommend",
       keywords |-> {<<"r", "e", "c", "o", "m", "m", "e", "n", "d">>,
                     <<"s", "u", "g", "g", "e", "s", "t">>}],
      [focus |-> "term",
       keywords |-> {<<"t", "e", "r", "m">>,
                     <<"c", "l", "a", "u", "s", "e">>}],
      [focus |-> "issue",
       keywords |-> {<<"i", "s", "s", "u", "e">>,
                     <<"p", "r", "o", "b", "l", "e", "m">>}]>>

\* questionLower.includes(a) || questionLower.includes(b) for group k
GroupMatches(question, k) ==
    \E kw \in FocusGroups[k].keywords : includes(toLowerCase(question), kw)

\* the focus of the last group that matches
FocusLastMatch(question) ==
    IF \E k \in 1..Len(FocusGroups) : GroupMatches(question, k)
    THEN FocusGroups[CHOOSE k \in 1..Len(FocusGroups) :
                       /\ GroupMatches(question, k)
                       /\ \A j \in (k + 1)..Len(FocusGroups) :
                            ~GroupMatches(question, j)].focus
    ELSE "general"

\* the branch taken: the first group that matches, else the full context
Focus(question) ==
    IF \E k \in 1..Len(FocusGroups) : GroupMatches(question, k)
    THEN FocusGroups[CHOOSE k \in 1..Len(FocusGroups) :
                       /\ GroupMatches(question, k)
                       /\ \A j \in 1..(k - 1) : ~GroupMatches(question, j)].focus
    ELSE "general"

\* focusedPrompt: the focus and the risk score written into it; the
\* templates of the focuses recommend and term have no risk score line
FocusedPrompt(context, question) ==
    [focus |-> Focus(question),
     riskScore |-> IF Focus(question) \in {"risk", "issue", "general"}
                   THEN ParseRiskScore(context) ELSE <<>>]

\* texts typed into the input of the assistant
Questions ==
    {\* 'What is the RISK here?'
     <<"W", "h", "a", "t", " ", "i", "s", " ", "t", "h", "e", " ", "R",
       "I", "S", "K", " ", "h", "e", "r", "e", "?">>,
     \* 'Any suggestions on the score?'
     <<"A", "n", "y", " ", "s", "u", "g", "g", "e", "s", "t", "i", "o",
       "n", "s", " ", "o", "n", " ", "t", "h", "e", " ", "s", "c", "o",
       "r", "e", "?">>,
     \* 'Please recommend terms'
     <<"P", "l", "e", "a", "s", "e", " ", "r", "e", "c", "o", "m", "m",
       "e", "n", "d", " ", "t", "e", "r", "m", "s">>,
     \* 'Which clause has problems?'
     <<"W", "h", "i", "c", "h", " ", "c", "l", "a", "u", "s", "e", " ",
       "h", "a", "s", " ", "p", "r", "o", "b", "l", "e", "m", "s", "?">>,
     \* 'Any issues?'
     <<"A", "n", "y", " ", "i", "s", "s", "u", "e", "s", "?">>,
     \* 'Who signs?'
     <<"W", "h", "o", " ", "s", "i", "g", "n", "s", "?">>,
     \* 'Determine the parties'
     <<"D", "e", "t", "e", "r", "m", "i", "n", "e", " ", "t", "h", "e",
       " ", "p", "a", "r", "t", "i", "e", "s">>,
     \* 'Is it a problem to Suggest one?'
     <<"I", "s", " ", "i", "t", " ", "a", " ", "p", "r", "o", "b", "l",
       "e", "m", " ", "t", "o", " ", "S", "u", "g", "g", "e", "s", "t",
       " ", "o", "n", "e", "?">>,
     \* '  '
     <<" ", " ">>}

\* the analysis held by the assistant: summaries 'A lease.' and
\* 'Risk Score: 70% stated.', key terms 'rent, term', issues 'late fee',
\* recommendations 'review' (the lists joined with ', ')
Analyses ==
    [summary : {<<"A", " ", "l", "e", "a", "s", "e", ".">>,
                <<"R", "i", "s", "k", " ", "S", "c", "o", "r", "e", ":",
                  " ", "7", "0", "%", " ", "s", "t", "a", "t", "e", "d", ".">>},
     riskScore : {0, 7, 45, 100},
     keyTerms : {<<"r", "e", "n", "t", ",", " ", "t", "e", "r", "m">>},
     potentialIssues : {<<"l", "a", "t", "e", " ", "f", "e", "e">>},
     recommendations : {<<"r", "e", "v", "i", "e", "w">>}]

\* input.trim() is empty
IsBlank(input) == \A i \in 1..Len(input) : input[i] \in WhiteSpace

ChIdle ==
    /\ ch_pc = "off" /\ ch_key = FALSE /\ ch_analysis = <<>> /\ ch_input = <<>>
    /\ ch_req = <<>> /\ ch_prompt = <<>> /\ ch_resp = <<>> /\ ch_reply = "none"
    /\ ch_messages = <<>> /\ ch_loading = FALSE

InitChatVars ==
    /\ ch_pc = "input"
    /\ ch_key \in BOOLEAN
    /\ ch_analysis \in {<<>>} \cup {<<a>> : a \in Analyses}
    /\ ch_input \in Questions
    /\ ch_req = <<>> /\ ch_prompt = <<>> /\ ch_resp = <<>> /\ ch_reply = "none"
    /\ ch_messages = <<"greeting">> /\ ch_loading = FALSE

\* the number of messages of the list that are of one of the kinds
Count(messages, kinds) ==
    Cardinality({k \in 1..Len(messages) : messages[k] \in kinds})

\* onChange of the textarea after a round is over: the next text is typed
TypeInput ==
    /\ ch_pc = "done" /\ ~ch_loading
    /\ Count(ch_messages, {"user"}) < MaxSends
    /\ ch_pc' = "input"
    /\ ch_input' \in Questions
    /\ ch_req' = <<>> /\ ch_prompt' = <<>> /\ ch_resp' = <<>> /\ ch_reply' = "none"
    /\ UNCHANGED <<ch_key, ch_analysis, ch_messages, ch_loading, otherThanCh>>

\* handleAnalysisUpdate: a contractAnalysisComplete event with a numeric
\* risk score replaces the analysis held and appends the analysis message
AnalysisUpdate ==
    /\ ch_pc # "off"
    /\ Count(ch_messages, {"analysis"}) < MaxUpdates
    /\ \E a \in Analyses : ch_analysis' = <<a>>
    /\ ch_messages' = Append(ch_messages, "analysis")
    /\ UNCHANGED <<ch_pc, ch_key, ch_input, ch_req, ch_prompt, ch_resp, ch_reply,
                   ch_loading, otherThanCh>>

\* handleSend up to the fetch of generateResponse: nothing for a blank
\* input; else the user message is appended and, without an analysis, the
\* fixed hint follows at once, with one the request is sent and isLoading
\* stays true
HandleSend ==
    /\ ch_pc = "input"
    /\ IF IsBlank(ch_input)
       THEN /\ ch_pc' = "done"
            /\ UNCHANGED <<ch_req, ch_reply, ch_messages, ch_loading>>
       ELSE IF ch_analysis = <<>>
       THEN /\ ch_pc' = "done" /\ ch_reply' = "upload first"
            /\ ch_messages' = ch_messages \o <<"user", "upload first">>
            /\ UNCHANGED <<ch_req, ch_loading>>
       ELSE /\ ch_pc' = "request"
            /\ ch_req' = <<[context |-> FormatContext(ch_analysis[1], ch_input),
                           question |-> ch_input]>>
            /\ ch_messages' = Append(ch_messages, "user")
            /\ ch_loading' = TRUE
            /\ UNCHANGED ch_reply
    /\ UNCHANGED <<ch_key, ch_analysis, ch_input, ch_prompt, ch_resp, otherThanCh>>

\* the handler of /api/chat up to model.generateContent
ChatStart ==
    /\ ch_pc = "request"
    /\ IF ~ch_key
       THEN /\ ch_pc' = "answered"
            /\ ch_resp' = <<500>>
            /\ UNCHANGED ch_prompt
       ELSE /\ ch_pc' = "generate"
            /\ ch_prompt' = <<FocusedPrompt(ch_req[1].context, ch_req[1].question)>>
            /\ UNCHANGED ch_resp
    /\ UNCHANGED <<ch_key, ch_analysis, ch_input, ch_req, ch_reply, ch_messages,
                   ch_loading, otherThanCh>>

\* model.generateContent returns and the text is sent
GenerateReturns ==
    /\ ch_pc = "generate"
    /\ ch_pc' = "answered"
    /\ ch_resp' = <<200>>
    /\ UNCHANGED <<ch_key, ch_analysis, ch_input, ch_req, ch_prompt, ch_reply,
                   ch_messages, ch_loading, otherThanCh>>

\* model.generateContent or response.text() throws
GenerateFails ==
    /\ ch_pc = "generate"
    /\ ch_pc' = "answered"
    /\ ch_resp' = <<500>>
    /\ UNCHANGED <<ch_key, ch_analysis, ch_input, ch_req, ch_prompt, ch_reply,
                   ch_messages, ch_loading, otherThanCh>>

\* generateResponse after the fetch and the rest of handleSend: the answer,
\* or the apology when the response is not ok, is appended and isLoading
\* is reset
ResponseArrives ==
    /\ ch_pc = "answered"
    /\ ch_pc' = "done"
    /\ ch_reply' = IF ch_resp = <<200>> THEN "response" ELSE "apology"
    /\ ch_messages' = Append(ch_messages, ch_reply')
    /\ ch_loading' = FALSE
    /\ UNCHANGED <<ch_key, ch_analysis, ch_input, ch_req, ch_prompt, ch_resp, otherThanCh>>


(***************************************************************************)
(* SpecItems: the bullet items of the aggregated response of               *)
(* /api/analyze-contract. The code treats keyTerms, potentialIssues and    *)
(* recommendations alike; it_sections[i] is the section of one of them in  *)
(* the synthesis of run i, as its lines; a line is a sequence of           *)
(* characters.                                                             *)
(***************************************************************************)
\* lines of a section: '- a', ' -a ', '- b', 'a' and '-'
SectionLines ==
    {<<"-", " ", "a">>, <<" ", "-", "a", " ">>, <<"-", " ", "b">>, <<"a">>, <<"-">>}

\* extractBulletPoints(section), the section split at '\n' already
extractBulletPoints(section) ==
    LET IsBullet(line) == Trim(line) # <<>> /\ Head(Trim(line)) = "-"
        NonEmpty(item) == item # <<>>
        bullets == SelectSeq(section, IsBullet)
    IN  SelectSeq([k \in 1..Len(bullets) |-> TrimStart(Tail(Trim(bullets[k])))],
                  NonEmpty)

RECURSIVE UniqueItemsList(_, _, _, _)
\* the items collected in an array: every item is appended
UniqueItemsList(items, i, j, acc) ==
    IF i > Len(items) THEN acc
    ELSE IF j > Len(items[i]) THEN UniqueItemsList(items, i + 1, 1, acc)
    ELSE UniqueItemsList(items, i, j + 1, Append(acc, items[i][j]))

RECURSIVE UniqueItems(_, _, _, _)
\* analyses.forEach(analysis => analysis.keyTerms.forEach(term =>
\* uniqueKeyTerms.add(term))) and Array.from(uniqueKeyTerms), from item j of
\* run i on: a Set keeps the order of insertion and adds a value once
UniqueItems(items, i, j, acc) ==
    IF i > Len(items) THEN acc
    ELSE IF j > Len(items[i]) THEN UniqueItems(items, i + 1, 1, acc)
    ELSE UniqueItems(items, i, j + 1,
                     IF \E k \in 1..Len(acc) : acc[k] = items[i][j]
                     THEN acc ELSE Append(acc, items[i][j]))

ItIdle == it_sections = <<>> /\ it_out = <<>>

InitItemsVars ==
    /\ it_sections \in
         UNION {[1..n -> UNION {[1..l -> SectionLines] : l \in 0..MaxLines}] :
                  n \in 1..MaxItemRuns}
    /\ it_out = <<>>

\* the runs parse their sections and the handler aggregates the items
AggregateItems ==
    /\ it_out = <<>>
    /\ it_out' = <<UniqueItems([i \in 1..Len(it_sections) |->
                                  extractBulletPoints(it_sections[i])],
                               1, 1, <<>>)>>
    /\ UNCHANGED <<it_sections, otherThanIt>>

(***************************************************************************)
(* Specifications.                                                         *)
(***************************************************************************)
InitRisk == InitRiskVars /\ AnIdle /\ TmIdle /\ FtIdle /\ CkIdle /\ ExIdle /\ DtIdle /\ ChIdle /\ ItIdle
NextRisk == ExtractRisk
SpecRisk == InitRisk /\ [][NextRisk]_vars

InitScore == InitScoreVars /\ RkIdle /\ TmIdle /\ FtIdle /\ CkIdle /\ ExIdle /\ DtIdle /\ ChIdle /\ ItIdle
NextScore ==
    \/ AnalyzeStart \/ ChunkCallReturns \/ ChunkCallFails
    \/ RunCompletes \/ RunFails \/ Aggregate
SpecScore == InitScore /\ [][NextScore]_vars

InitTimeout == InitTimeoutVars /\ RkIdle /\ AnIdle /\ FtIdle /\ CkIdle /\ ExIdle /\ DtIdle /\ ChIdle /\ ItIdle
NextTimeout ==
    \/ TimeoutStart \/ ChunkCompletes \/ ChunkFails \/ TimerFires
    \/ SynthesisStart \/ SynthesisCompletes \/ SynthesisFails
\* the handler's own steps and the timer always run; a model call may never
\* complete
FairTimeout ==
    WF_vars(TimeoutStart) /\ WF_vars(TimerFires) /\ WF_vars(SynthesisStart)
SpecTimeout == InitTimeout /\ [][NextTimeout]_vars /\ FairTimeout

InitFetch == InitFetchVars /\ RkIdle /\ AnIdle /\ TmIdle /\ CkIdle /\ ExIdle /\ DtIdle /\ ChIdle /\ ItIdle
NextFetch ==
    \/ FetchStart \/ UserInfoReturns \/ DocumentListReturns
    \/ CombinedDocumentReturns \/ ParseReturns
SpecFetch == InitFetch /\ [][NextFetch]_vars

InitChunk == InitChunkVars /\ RkIdle /\ AnIdle /\ TmIdle /\ FtIdle /\ ExIdle /\ DtIdle /\ ChIdle /\ ItIdle
NextChunk == ChunkText
SpecChunk == InitChunk /\ [][NextChunk]_vars

InitExt == InitExtVars /\ RkIdle /\ AnIdle /\ TmIdle /\ FtIdle /\ CkIdle /\ DtIdle /\ ChIdle /\ ItIdle
NextExt ==
    \/ PopupClick \/ BackendAnswers \/ StoreUrl \/ OpenFrontend
    \/ UserReloads \/ TabLoaded
SpecExt == InitExt /\ [][NextExt]_vars

InitDates == InitDatesVars /\ RkIdle /\ AnIdle /\ TmIdle /\ FtIdle /\ CkIdle /\ ExIdle /\ ChIdle /\ ItIdle
NextDates == ExtractDates
SpecDates == InitDates /\ [][NextDates]_vars

InitChat == InitChatVars /\ RkIdle /\ AnIdle /\ TmIdle /\ FtIdle /\ CkIdle /\ ExIdle /\ DtIdle /\ ItIdle
NextChat ==
    \/ HandleSend \/ ChatStart \/ GenerateReturns \/ GenerateFails
    \/ ResponseArrives \/ TypeInput \/ AnalysisUpdate
SpecChat == InitChat /\ [][NextChat]_vars
\* the steps of the frontend and of the handler are taken once they can be;
\* nothing makes the model call return
SpecChatLive == SpecChat /\ WF_vars(ChatStart) /\ WF_vars(ResponseArrives)

InitItems == InitItemsVars /\ RkIdle /\ AnIdle /\ TmIdle /\ FtIdle /\ CkIdle /\ ExIdle /\ DtIdle /\ ChIdle
NextItems == AggregateItems
SpecItems == InitItems /\ [][NextItems]_vars

(***************************************************************************)
(* Properties of the score aggregation (SpecScore) and of extractRiskScore *)
(* (SpecRisk).                                                             *)
(***************************************************************************)
\* the scores of the runs that entered the aggregation
ScoreValues == {an_scores[i].score : i \in 1..Len(an_scores)}
NumBelow(v) == Cardinality({i \in 1..Len(an_scores) : an_scores[i].score < v})
NumAtMost(v) == Cardinality({i \in 1..Len(an_scores) : an_scores[i].score <= v})
NumHigh == Cardinality({i \in 1..Len(an_scores) : an_scores[i].score > 60})
\* the k-th smallest of the run scores, by rank
KthScore(k) == CHOOSE v \in ScoreValues : NumBelow(v) < k /\ NumAtMost(v) >= k

\* C1: the score chosen before the consensus adjustment is the median of
\* the run scores: the middle one in ascending order for an odd number of
\* runs, the mean of the two middle ones rounded to the nearest integer
\* (a half rounds up) for an even number.
ThmC1_Median ==
    an_status = 200 =>
        LET n == Len(an_scores)
        IN  /\ n > 0
            /\ IF n % 2 = 1
               THEN an_median = KthScore((n + 1) \div 2)
               ELSE LET lo == KthScore(n \div 2)
                        hi == KthScore(n \div 2 + 1)
                    IN  /\ 2 * an_median >= lo + hi
                        /\ 2 * an_median <= lo + hi + 1

\* an even number of runs whose two middle scores have an odd sum, so that
\* the mean is rounded
WitC1_RoundedMean ==
    /\ an_status = 200
    /\ Len(an_scores) % 2 = 0
    /\ (KthScore(Len(an_scores) \div 2)
        + KthScore(Len(an_scores) \div 2 + 1)) % 2 = 1

\* C2: a returned score above 60 implies that at least half of the runs
\* scored above 60; a median above 60 with fewer than half of the runs
\* above 60 is returned as 60.
ThmC2_Consensus ==
    an_status = 200 =>
        /\ (an_final > 60 => 2 * NumHigh >= Len(an_scores))
        /\ (an_median > 60 /\ 2 * NumHigh < Len(an_scores) => an_final = 60)

\* a score above 60 is returned although one run scored 60 or less
WitC2_HighWithDissent ==
    /\ an_status = 200
    /\ an_final > 60
    /\ NumHigh < Len(an_scores)

\* C4: the riskScore of a successful response lies in 0..100.
InvC4_ScoreInRange == an_status = 200 => an_final \in 0..100

\* C10: the score a run enters into the median is its stated score when
\* one is stated, zero included, and the composite score otherwise.
InvC10_StatedScoreUsed ==
    an_status = 200 =>
        \A k \in 1..Len(an_scores) :
            LET text == an_res[an_scores[k].run].text
            IN  an_scores[k].score =
                    IF text.stated # NoMatch THEN parseInt(text.stated)
                    ELSE extractRiskScore(text).score

TimedOut(i) == tm_res[i] = "placeholder" /\ tm_call[i] = "pending"

\* C5: every request gets exactly one response, also when model calls
\* never complete: never more than one response is sent, and eventually
\* one has been sent for good.
PropC5_OneResponse ==
    /\ [](Len(tm_resp) <= 1)
    /\ <>[](Len(tm_resp) = 1)

\* a response was sent while a chunk call and the synthesis call or another
\* chunk call are still open
WitC5_AnsweredWithOpenCalls ==
    /\ Len(tm_resp) = 1
    /\ \/ tm_synth = "pending"
       \/ \E i \in 1..Len(tm_call) : tm_call[i] = "pending"

\* C6: when a chunk analysis timed out while another one completed, the
\* timed-out chunk holds the placeholder and the response is the synthesis
\* over the chunk results, not the fallback analysis.
InvC6_PartialSynthesis ==
    (/\ Len(tm_resp) = 1
     /\ \E i \in 1..Len(tm_res) : TimedOut(i)
     /\ \E j \in 1..Len(tm_res) : tm_res[j] = "text")
    => tm_resp[1].kind = "synthesis"

(***************************************************************************)
(* Properties of /api/fetch-contract (SpecFetch).                          *)
(***************************************************************************)
\* C7: the external steps are issued in the order user-info, document
\* list, combined document, PDF parse; a step is issued only after every
\* earlier one succeeded; every HTTP call carries the caller's bearer token;
\* a failed step is the last one issued and is answered with an error.
ThmC7_OrderedSteps ==
    /\ Len(ft_calls) <= Len(StepOrder)
    /\ Len(ft_resp) <= 1
    /\ \A k \in 1..Len(ft_calls) :
         /\ ft_calls[k].step = StepOrder[k]
         /\ ft_calls[k].step # "parse"
              => ft_token # "none" /\ ft_calls[k].token = ft_token
         /\ k < Len(ft_calls) => ft_calls[k].outcome.kind = "ok"
         /\ ft_calls[k].outcome.kind \notin {"ok", "pending"}
              => /\ k = Len(ft_calls)
                 /\ ft_resp # <<>>
                 /\ ft_resp[1] >= 400

\* the combined-document call failed after two successful steps
WitC7_FailureAtThirdStep ==
    /\ Len(ft_calls) = 3
    /\ ft_calls[3].outcome.kind \in {"http", "error"}
    /\ ft_resp # <<>>

\* C15: the request is answered 400 without a docusignUrl, 401 with a URL
\* but without a bearer token, 400 with both but without an identifier in
\* the URL; in the three cases no call to DocuSign is made.
ThmC15_RequestChecks ==
    ft_pc \notin {"off", "start"} =>
        /\ ft_url = "missing" => ft_resp = <<400>> /\ ft_calls = <<>>
        /\ ft_url # "missing" /\ ft_token = "none"
             => ft_resp = <<401>> /\ ft_calls = <<>>
        /\ ft_url = "noid" /\ ft_token # "none"
             => ft_resp = <<400>> /\ ft_calls = <<>>

\* a request with neither URL nor token was answered: the URL check came
\* first
WitC15_MissingUrlNoToken ==
    /\ ft_pc = "done" /\ ft_url = "missing" /\ ft_token = "none"
    /\ ft_resp = <<400>>

\* C16: when a DocuSign call of the handler was rejected with status 401,
\* the response of the endpoint has status 401.
InvC16_Unauthorized401 ==
    \A k \in 1..Len(ft_calls) :
        (/\ ft_calls[k].step # "parse"
         /\ ft_calls[k].outcome = [kind |-> "http", status |-> 401])
        => ft_resp = <<401>>

(***************************************************************************)
(* Properties of chunkText (SpecChunk).                                    *)
(***************************************************************************)
\* C8: no chunk is longer than maxChunkSize, except a chunk that is one
\* single sentence which is itself longer than maxChunkSize.
InvC8_ChunkSize ==
    ck_out # <<>> =>
        \A k \in 1..Len(ck_out[1]) :
            LET chunk == ck_out[1][k]
                sentences == SplitSentences(ck_text)
            IN  \/ Len(chunk) <= ck_max
                \/ \E j \in 1..Len(sentences) :
                     /\ Len(sentences[j]) > ck_max
                     /\ chunk = Trim(sentences[j])

(***************************************************************************)
(* Properties of the extension (SpecExt).                                  *)
(***************************************************************************)
\* C9: after the URL was accepted and stored with STORE_URL, the next
\* completed load of the frontend tab the popup reloaded or created writes
\* the stored URL into the DocuSign URL input of that tab's page (a page
\* that renders no such input is left aside).
InvC9_UrlWritten == ex_firstLoad \in {"none", "written", "noinput"}

(***************************************************************************)
(* Further properties of the score aggregation (SpecScore) and of          *)
(* extractRiskScore (SpecRisk).                                            *)
(***************************************************************************)
\* C11: the consensus adjustment never changes the result: whenever the
\* median exceeds 60 at least half of the runs scored above 60, and the
\* returned score equals the median.
ThmC11_AdjustmentIdle ==
    an_status = 200 =>
        /\ an_final = an_median
        /\ an_median > 60 => 2 * NumHigh >= Len(an_scores)

\* a median above 60 with exactly half of the runs above 60
WitC11_HighMedianHalfHigh ==
    /\ an_status = 200
    /\ an_median > 60
    /\ 2 * NumHigh = Len(an_scores)

\* C12: a score above 60 is returned only for a text with two or more
\* high-risk indicator phrases; with fewer than two, a category sum above
\* 60 is returned as 60 and a sum of 60 or less unchanged.
ThmC12_IndicatorCap ==
    rk_out # <<>> =>
        LET r == rk_out[1]
        IN  /\ r.score > 60 => rk_text.indicators >= 2
            /\ rk_text.indicators < 2 /\ r.totalScore > 60 => r.score = 60
            /\ rk_text.indicators < 2 /\ r.totalScore <= 60
                 => r.score = r.totalScore

\* a category sum above 60 in a text with a single indicator phrase
WitC12_CappedWithOneIndicator ==
    /\ rk_out # <<>>
    /\ rk_text.indicators = 1
    /\ rk_out[1].totalScore > 60

(***************************************************************************)
(* Properties of extractDates (SpecDates).                                 *)
(***************************************************************************)
\* the entries returned
DatesOut == dt_out[1]
\* match k is the match extractDates should keep for its date: it has an
\* important keyword, no such match of the date has a longer context, and
\* none as long comes earlier
IsKept(k) ==
    /\ IsImportant(dt_matches[k].context)
    /\ \A j \in 1..Len(dt_matches) :
         (dt_matches[j].date = dt_matches[k].date
          /\ IsImportant(dt_matches[j].context))
         => /\ dt_matches[j].context.length <= dt_matches[k].context.length
            /\ dt_matches[j].context.length = dt_matches[k].context.length
                 => k <= j

\* C13: every date of a standard pattern comes before every date of a
\* relative pattern, and the type of an entry is 'standard' or 'relative'
\* according to the pattern that matched its date.
InvC13_TypeAndOrder ==
    dt_out # <<>> =>
        /\ \A i \in 1..Len(DatesOut) :
             DatesOut[i].type = datePatterns[PatternOf(DatesOut[i].date)].type
        /\ \A i, j \in 1..Len(DatesOut) :
             (/\ datePatterns[PatternOf(DatesOut[i].date)].type = "relative"
              /\ datePatterns[PatternOf(DatesOut[j].date)].type = "standard")
             => j < i

\* C14: no two entries have the same date; the entry of a date carries the
\* longest context among the matches of that date that hold an important
\* keyword, the earliest one on ties; no other match is returned.
ThmC14_UniqueLongest ==
    dt_out # <<>> =>
        /\ \A i, j \in 1..Len(DatesOut) :
             DatesOut[i].date = DatesOut[j].date => i = j
        /\ \A i \in 1..Len(DatesOut) :
             \E k \in 1..Len(dt_matches) :
                 /\ dt_matches[k].date = DatesOut[i].date
                 /\ dt_matches[k].context = DatesOut[i].context
                 /\ IsKept(k)

\* a date matched twice with different contexts of the same length, both
\* with an important keyword
WitC14_TieOnLength ==
    /\ dt_out # <<>>
    /\ \E j, k \in 1..Len(dt_matches) :
         /\ j < k
         /\ dt_matches[j].date = dt_matches[k].date
         /\ dt_matches[j].context # dt_matches[k].context
         /\ dt_matches[j].context.length = dt_matches[k].context.length
         /\ IsKept(j)

(***************************************************************************)
(* Properties of /api/chat (SpecChat).                                     *)
(***************************************************************************)
\* one of the two keywords occurs in the lower-cased question of the request
Asks(kw1, kw2) ==
    \/ includes(toLowerCase(ch_req[1].question), kw1)
    \/ includes(toLowerCase(ch_req[1].question), kw2)

\* C17: the risk score written into the prompt is the riskScore of the
\* analysis the context was built from.
InvC17_PromptRiskScore ==
    \A a \in Analyses :
        (/\ ch_prompt # <<>> /\ ch_prompt[1].riskScore # <<>>
         /\ ch_req[1].context = FormatContext(a, ch_req[1].question))
        => ch_prompt[1].riskScore = NumberToString(a.riskScore)

\* C18: the prompt has the focus of the first group, in the order
\* risk/score, recommend/suggest, term/clause, issue/problem, of which a
\* keyword occurs in the question whatever its case; with no such group it
\* has the full context.
ThmC18_FirstMatchingFocus ==
    ch_prompt # <<>> =>
        LET focus == ch_prompt[1].focus
            risk == Asks(<<"r", "i", "s", "k">>,
                         <<"s", "c", "o", "r", "e">>)
            recommend == Asks(<<"r", "e", "c", "o", "m", "m", "e", "n", "d">>,
                              <<"s", "u", "g", "g", "e", "s", "t">>)
            term == Asks(<<"t", "e", "r", "m">>,
                         <<"c", "l", "a", "u", "s", "e">>)
            issue == Asks(<<"i", "s", "s", "u", "e">>,
                          <<"p", "r", "o", "b", "l", "e", "m">>)
        IN  /\ focus \in {"risk", "recommend", "term", "issue", "general"}
            /\ focus = "risk" <=> risk
            /\ focus = "recommend" <=> ~risk /\ recommend
            /\ focus = "term" <=> ~risk /\ ~recommend /\ term
            /\ focus = "issue" <=> ~risk /\ ~recommend /\ ~term /\ issue
            /\ focus = "general" <=> ~risk /\ ~recommend /\ ~term /\ ~issue

\* a question with 'problem' and with 'Suggest' in upper case got the focus
\* of the earlier group
WitC18_TwoGroupsMatch ==
    /\ ch_prompt # <<>>
    /\ includes(ch_req[1].question, <<"p", "r", "o", "b", "l", "e", "m">>)
    /\ includes(ch_req[1].question, <<"S", "u", "g", "g", "e", "s", "t">>)
    /\ ch_prompt[1].focus = "recommend"

(***************************************************************************)
(* Properties of the responses of /api/analyze-contract (SpecScore).       *)
(***************************************************************************)
\* C19: a response 200 carries the analysis and is sent only when every
\* chunk call and the synthesis call of every run returned; after a
\* rejected model call, and for blank content, the response is 500 with the
\* error 'Failed to analyze contract' and no analysis; for blank content no
\* model call was issued.
ThmC19_AllOrNothing ==
    /\ an_status \in {0, 200, 500}
    /\ an_status = 200 =>
         /\ an_body = "analysis"
         /\ an_failures = 0
         /\ \A i \in 1..an_n : an_done[i] = an_chunks /\ an_res[i].st = "ok"
         /\ an_calls = an_n * (an_chunks + 1)
    /\ an_failures > 0 => an_status = 500
    /\ an_status = 500 => an_body = "Failed to analyze contract"
    /\ (an_pc = "done" /\ an_content \in {"missing", "blank"})
         => an_status = 500 /\ an_calls = 0

\* the last call still open, a synthesis call, was rejected after every
\* other call of every run had returned
WitC19_LastCallFails ==
    /\ an_status = 500 /\ an_n >= 2 /\ an_failures = 1
    /\ an_calls = an_n * (an_chunks + 1)
    /\ \E i \in 1..an_n :
         /\ an_res[i].st = "failed" /\ an_done[i] = an_chunks
         /\ \A j \in (1..an_n) \ {i} : an_res[j].st = "ok"

(***************************************************************************)
(* Properties of the responses of the timeout-protected endpoint           *)
(* (SpecTimeout).                                                          *)
(***************************************************************************)
\* the response is the fixed fallback analysis
IsFallback(resp) ==
    /\ resp.kind = "fallback" /\ resp.riskScore = 50
    /\ resp.isPartialAnalysis /\ resp.error # "none"

\* C20 as stated: every response has status 200, and after any failure,
\* be it blank content, a rejected model call or a model call cut off by
\* the timer, the response is the fixed fallback analysis.
InvC20_EveryFailureFallback ==
    /\ \A k \in 1..Len(tm_resp) : tm_resp[k].status = 200
    /\ (/\ Len(tm_resp) = 1
        /\ \/ \E i \in 1..Len(tm_call) : tm_call[i] = "failed" \/ TimedOut(i)
           \/ tm_synth = "failed")
       => IsFallback(tm_resp[1])

\* C20 amended: every response has status 200; a response is either the
\* fixed fallback analysis or the parsed synthesis, and it is the parsed
\* synthesis only when the key is configured, no chunk was cut off by the
\* timer and the synthesis call returned. (A rejected chunk call alone
\* leaves a placeholder and does not make the response the fallback.)
ThmC20_FallbackOnError ==
    /\ \A k \in 1..Len(tm_resp) :
         /\ tm_resp[k].status = 200
         /\ tm_resp[k].kind \in {"fallback", "synthesis"}
         /\ tm_resp[k].kind = "fallback" => IsFallback(tm_resp[k])
    /\ (Len(tm_resp) = 1 /\ tm_resp[1].kind = "synthesis")
         => /\ tm_key /\ tm_synth = "ok"
            /\ \A i \in 1..Len(tm_call) : ~TimedOut(i)
    /\ tm_pc = "done" => Len(tm_resp) = 1

\* the synthesis call was rejected and the fallback analysis was sent
WitC20_SynthesisRejected ==
    /\ Len(tm_resp) = 1 /\ tm_synth = "failed"
    /\ IsFallback(tm_resp[1]) /\ tm_resp[1].status = 200

(***************************************************************************)
(* Properties of the message list of ContractAssistant (SpecChatLive).     *)
(***************************************************************************)
\* the messages that answer a message sent
Replies == {"response", "upload first", "apology"}

\* what holds of the message list in every state: a message sent is
\* answered by at most one reply, which comes after it; isLoading is true
\* exactly while a message sent has no reply yet; a blank input adds no
\* message and sends no request
MessagesInStep ==
    /\ Count(ch_messages, Replies) <= Count(ch_messages, {"user"})
    /\ Count(ch_messages, {"user"}) <= Count(ch_messages, Replies) + 1
    /\ ch_loading <=> Count(ch_messages, {"user"}) > Count(ch_messages, Replies)
    /\ \A k \in 1..Len(ch_messages) :
         ch_messages[k] \in Replies
         => Count(SubSeq(ch_messages, 1, k), Replies)
              = Count(SubSeq(ch_messages, 1, k), {"user"})
    /\ (ch_pc \in {"input", "done"} /\ IsBlank(ch_input))
         => ch_req = <<>> /\ ch_reply = "none" /\ ~ch_loading

\* C21: every non-blank message sent is appended to the list and is
\* eventually followed by exactly one reply (the answer, the hint to upload
\* a contract first, or the apology), after which isLoading is false; a
\* blank input appends nothing and sends no request.
PropC21_EverySendAnswered ==
    /\ []MessagesInStep
    /\ ch_loading ~> ~ch_loading

(***************************************************************************)
(* Properties of the aggregated bullet items (SpecItems).                  *)
(***************************************************************************)
RECURSIVE ItemsUpTo(_)
\* the bullet items of the runs 1..n, in run order
ItemsUpTo(n) ==
    IF n = 0 THEN <<>>
    ELSE ItemsUpTo(n - 1) \o extractBulletPoints(it_sections[n])

\* the place of the first occurrence of the item in the runs
FirstPlace(item) ==
    LET all == ItemsUpTo(Len(it_sections))
    IN  CHOOSE k \in 1..Len(all) :
            all[k] = item /\ \A j \in 1..(k - 1) : all[j] # item

\* C22: the aggregated list holds exactly the bullet items found in some
\* run, each once, in the order of their first occurrence across the runs
\* in run order.
ThmC22_DistinctInOrder ==
    it_out # <<>> =>
        LET out == it_out[1]
            all == ItemsUpTo(Len(it_sections))
        IN  /\ {out[k] : k \in 1..Len(out)} = {all[k] : k \in 1..Len(all)}
            /\ \A i, j \in 1..Len(out) : out[i] = out[j] => i = j
            /\ \A i, j \in 1..Len(out) :
                 i < j => FirstPlace(out[i]) < FirstPlace(out[j])

\* two runs name the same item, the second run names another one before it
WitC22_RepeatedAcrossRuns ==
    /\ it_out # <<>> /\ Len(it_sections) = 2
    /\ extractBulletPoints(it_sections[1]) = <<<<"a">>>>
    /\ extractBulletPoints(it_sections[2]) = <<<<"b">>, <<"a">>>>
    /\ it_out[1] = <<<<"a">>, <<"b">>>>

====
